---------------------------- MODULE Spec2Model ----------------------------
(* Model of video_dedup.py: main -> VideoDeduplicator.__init__ ->           *)
(* deduplicate = extract_frames ; generate_hashes ; find_duplicates ;        *)
(* save_unique_frames ; statistics.                                          *)
EXTENDS Integers, Sequences, FiniteSets, TLC

(* ------------------------------ bounds --------------------------------- *)
\* Longest video (number of decodable frames) a whole run is given.
MaxFrames == 3
\* Longest input (number of hashed frames) find_duplicates is given alone.
MaxHashes == 4

(* ------------------------- program constants --------------------------- *)
MinThreshold == 0
MaxThreshold == 64
\* imagehash.phash with the default hash_size 8 yields 8*8 bits.
HashBits == 64
\* str(ImageHash) is HashBits/4 hexadecimal digits.
HexDigits == 16
\* interval = None of extract_frames / deduplicate.
NoInterval == 0
ExitOk == 0
ExitError == 1
ExitUsage == 2

(* ------------------------------ inputs --------------------------------- *)
\* Images a decoded frame can hold.  "bad" is a frame file that
\* Image.open / imagehash.phash cannot process (hashing raises).
GoodImages == {"A", "B", "C", "D", "F"}
Images == GoodImages \cup {"bad"}

\* The positions of the 1-bits of imagehash.phash(img), in raster order.
PHashBits(img) ==
    CASE img = "A" -> {}
      [] img = "B" -> {1, 2, 3}
      [] img = "C" -> {1, 2, 3, 5, 6}
      [] img = "D" -> {1, 2, 3, 9, 10}
      [] img = "F" -> 1..HashBits
      [] OTHER     -> {}

\* imagehash.phash(img): the flattened 8x8 boolean array.
phash(img) == [b \in 1..HashBits |-> IF b \in PHashBits(img) THEN 1 ELSE 0]

\* str(ImageHash): the bits read as one binary number, most significant
\* first, printed with HashBits/4 hexadecimal digits.
str(bits) ==
    [d \in 1..HexDigits |->
        8 * bits[4*d - 3] + 4 * bits[4*d - 2] + 2 * bits[4*d - 1] + bits[4*d]]

Pow2(n) == CASE n = 0 -> 1 [] n = 1 -> 2 [] n = 2 -> 4 [] OTHER -> 8

\* imagehash.hex_to_hash(hash_str): the hexadecimal digits back to bits.
hex_to_hash(hash_str) ==
    [b \in 1..(4 * Len(hash_str)) |->
        (hash_str[((b - 1) \div 4) + 1] \div Pow2(3 - ((b - 1) % 4))) % 2]

\* ImageHash.__sub__: the number of positions at which the bits differ.
Hamming(a, b) == Cardinality({n \in 1..Len(a) : a[n] # b[n]})

HashStrs == {str(phash(img)) : img \in GoodImages}

\* difference = hash_obj - processed_hash_obj, for every pair of hash strings
\* (@@ makes the table an explicit function, computed once).
DifferenceTable ==
    [p \in HashStrs \X HashStrs |-> Hamming(hex_to_hash(p[1]), hex_to_hash(p[2]))] @@ <<>>

difference(hash_str, processed_hash_str) ==
    DifferenceTable[<<hash_str, processed_hash_str>>]

\* Thresholds tried: one of every class that the distances between the
\* images above (0, 2, 3, 4, 5, 59, 61, 64) tell apart, below, inside and
\* above the documented range.
Thresholds == {-1, 0, 2, 3, 4, 5, 59, 61, 64, 65}
Intervals == {NoInterval, 2}
Entries == {"main", "api"}

Videos == UNION {[1..n -> Images] : n \in 0..MaxFrames}

(* ------------------------------- state --------------------------------- *)
VARIABLES
    entry,                \* "main": run through main(); "api": a caller constructs the object
    similarity_threshold, \* args.threshold / self.similarity_threshold
    interval,             \* args.interval
    pc,                   \* position of the run
    frames,               \* extract_frames' result: <<frame_num, image in frame_path>>
    hashes,               \* generate_hashes' dict, in insertion order: <<frame_num, hash_str>>
    pos,                  \* position of find_duplicates' outer loop in hashes
    duplicates,           \* find_duplicates: list of frame numbers
    processed_hashes,     \* find_duplicates: set of hash strings
    hash_to_frame,        \* find_duplicates: dict, as a set of <<hash_str, frame_num>>
    debug_log,            \* logger.debug of line 119: <<frame_num, frame it duplicates>>
    save_idx,             \* position of save_unique_frames' loop in frames
    output,               \* frame numbers with a file unique_frame_NNNNNN.jpg in output_dir
    report,               \* the statistics logged by deduplicate: <<>> or <<record>>
    error,                \* the exception raised, "none" if none
    raised_at,            \* the position at which it was raised
    exit_status           \* the process's exit status, meaningful when pc = "exited"

vars == <<entry, similarity_threshold, interval, pc, frames, hashes, pos, duplicates,
          processed_hashes, hash_to_frame, debug_log, save_idx, output, report,
          error, raised_at, exit_status>>

config == <<entry, similarity_threshold, interval>>
detector == <<pos, duplicates, processed_hashes, hash_to_frame, debug_log>>

Init ==
    /\ entry \in Entries
    /\ similarity_threshold \in Thresholds
    /\ interval \in Intervals
    /\ pc = IF entry = "main" THEN "main" ELSE "init"
    /\ frames = <<>>
    /\ hashes = <<>>
    /\ pos = 1
    /\ duplicates = <<>>
    /\ processed_hashes = {}
    /\ hash_to_frame = {}
    /\ debug_log = {}
    /\ save_idx = 1
    /\ output = {}
    /\ report = <<>>
    /\ error = "none"
    /\ raised_at = "none"
    /\ exit_status = ExitOk

(* ------------------------------ helpers -------------------------------- *)
\* An exception leaves deduplicate: main's try catches it, a direct caller
\* of the class gets it.
Raise(kind) ==
    /\ error' = kind
    /\ raised_at' = pc
    /\ pc' = IF entry = "main" THEN "except" ELSE "raised"


InRange(t) == MinThreshold <= t /\ t <= MaxThreshold

\* line 116: difference <= self.similarity_threshold
WithinMutStrict(hash_str, processed_hash_str, t) ==
    difference(hash_str, processed_hash_str) < t
WithinMutReversed(hash_str, processed_hash_str, t) ==
    difference(hash_str, processed_hash_str) >= t
Within(hash_str, processed_hash_str, t) ==
    difference(hash_str, processed_hash_str) <= t

\* The orders in which "for processed_hash_str in processed_hashes" can
\* visit a Python set of strings: string hashing is randomised per process,
\* so every order is possible.
RECURSIVE Orders(_)
Orders(S) ==
    IF S = {} THEN {<<>>}
    ELSE UNION {{<<x>> \o rest : rest \in Orders(S \ {x})} : x \in S}

OrdersTable == [S \in SUBSET HashStrs |-> Orders(S)] @@ <<>>

ScanOrders(S) == OrdersTable[S]

Min(S) == CHOOSE x \in S : \A y \in S : x <= y

\* hash_to_frame[hash_str]
FrameOf(h2f, hash_str) == (CHOOSE p \in h2f : p[1] = hash_str)[2]

\* hash_to_frame[hash_str] = frame_num
SetFrameOf(h2f, hash_str, frame_num) ==
    {p \in h2f : p[1] # hash_str} \cup {<<hash_str, frame_num>>}

\* lines 62-68: the frames extract_frames keeps of a video, numbered by
\* frame_count (from 0), every interval-th one when an interval is given.
RECURSIVE ExtractFrom(_, _, _)
ExtractFrom(video, n, ival) ==
    IF n = 0 THEN <<>>
    ELSE LET frame_count == n - 1
             should_extract == ival = NoInterval \/ frame_count % ival = 0
         IN IF should_extract
            THEN Append(ExtractFrom(video, n - 1, ival), <<frame_count, video[n]>>)
            ELSE ExtractFrom(video, n - 1, ival)

\* lines 85-95: one hash per frame that can be opened and hashed; a frame
\* whose processing raises gets a warning and no entry.
RECURSIVE HashesOf(_, _)
HashesOf(fs, n) ==
    IF n = 0 THEN <<>>
    ELSE IF fs[n][2] = "bad"
         THEN HashesOf(fs, n - 1)
         ELSE Append(HashesOf(fs, n - 1), <<fs[n][1], str(phash(fs[n][2]))>>)

\* find_duplicates as a function of its input and the threshold: the set
\* processed_hashes and the list duplicates after the first n entries.
RECURSIVE find_duplicates(_, _, _)
find_duplicates(hs, n, t) ==
    IF n = 0 THEN [processed_hashes |-> {}, duplicates |-> <<>>]
    ELSE LET before == find_duplicates(hs, n - 1, t)
             is_duplicate ==
                 \E k \in before.processed_hashes : Within(hs[n][2], k, t)
         IN IF is_duplicate
            THEN [before EXCEPT !.duplicates = Append(@, hs[n][1])]
            ELSE [before EXCEPT !.processed_hashes = @ \cup {hs[n][2]}]

\* The number of frames find_duplicates leaves out of duplicates.
UniqueCount(hs, t) == Len(hs) - Len(find_duplicates(hs, Len(hs), t).duplicates)

(* ------------------------------ actions -------------------------------- *)
\* main, lines 218-224: the range check on --threshold; parser.error
\* prints the usage message and exits with status 2.
Main ==
    /\ pc = "main"
    /\ IF similarity_threshold < MinThreshold \/ similarity_threshold > MaxThreshold
       THEN /\ pc' = "exited"
            /\ exit_status' = ExitUsage
            /\ error' = "usage"
            /\ raised_at' = pc
       ELSE /\ pc' = "init"
            /\ UNCHANGED <<exit_status, error, raised_at>>
    /\ UNCHANGED <<config, frames, hashes, detector, save_idx, output, report>>

\* VideoDeduplicator.__init__, lines 24-33: only the existence of the
\* video file is checked.
Construct ==
    /\ pc = "init"
    /\ \E exists \in BOOLEAN :
          IF exists
          THEN pc' = "extract" /\ UNCHANGED <<error, raised_at>>
          ELSE Raise("FileNotFoundError")
    /\ UNCHANGED <<config, frames, hashes, detector, save_idx, output, report, exit_status>>

\* extract_frames, lines 35-77.
ExtractFrames ==
    /\ pc = "extract"
    /\ \E isOpened \in BOOLEAN :
          IF isOpened
          THEN /\ \E video \in Videos : frames' = ExtractFrom(video, Len(video), interval)
               /\ pc' = "hash"
               /\ UNCHANGED <<error, raised_at>>
          ELSE /\ Raise("ValueError")
               /\ UNCHANGED frames
    /\ UNCHANGED <<config, hashes, detector, save_idx, output, report, exit_status>>

\* generate_hashes, lines 79-98.
GenerateHashes ==
    /\ pc = "hash"
    /\ hashes' = HashesOf(frames, Len(frames))
    /\ pc' = "find"
    /\ UNCHANGED <<config, frames, detector, save_idx, output, report, error,
                   raised_at, exit_status>>

\* find_duplicates, lines 108-124: one iteration of the outer loop.
FindStepMutAlwaysAdd ==
    /\ pc = "find"
    /\ pos <= Len(hashes)
    /\ \E scan \in ScanOrders(processed_hashes) :
          LET frame_num == hashes[pos][1]
              hash_str == hashes[pos][2]
              hits == {j \in DOMAIN scan : Within(hash_str, scan[j], similarity_threshold)}
          IN /\ IF hits # {}
                THEN /\ duplicates' = Append(duplicates, frame_num)
                     /\ debug_log' = debug_log \cup
                           {<<frame_num, FrameOf(hash_to_frame, scan[Min(hits)])>>}
                ELSE UNCHANGED <<duplicates, debug_log>>
             /\ processed_hashes' = processed_hashes \cup {hash_str}
             /\ hash_to_frame' = SetFrameOf(hash_to_frame, hash_str, frame_num)
    /\ pos' = pos + 1
    /\ UNCHANGED <<config, pc, frames, hashes, save_idx, output, report, error,
                   raised_at, exit_status>>
FindStep ==
    /\ pc = "find"
    /\ pos <= Len(hashes)
    /\ \E scan \in ScanOrders(processed_hashes) :
          LET frame_num == hashes[pos][1]
              hash_str == hashes[pos][2]
              hits == {j \in DOMAIN scan : Within(hash_str, scan[j], similarity_threshold)}
          IN IF hits # {}
             THEN /\ duplicates' = Append(duplicates, frame_num)
                  /\ debug_log' = debug_log \cup
                        {<<frame_num, FrameOf(hash_to_frame, scan[Min(hits)])>>}
                  /\ UNCHANGED <<processed_hashes, hash_to_frame>>
             ELSE /\ processed_hashes' = processed_hashes \cup {hash_str}
                  /\ hash_to_frame' = SetFrameOf(hash_to_frame, hash_str, frame_num)
                  /\ UNCHANGED <<duplicates, debug_log>>
    /\ pos' = pos + 1
    /\ UNCHANGED <<config, pc, frames, hashes, save_idx, output, report, error,
                   raised_at, exit_status>>

\* find_duplicates, lines 126-127: the loop is over, duplicates is returned.
FindReturn ==
    /\ pc = "find"
    /\ pos > Len(hashes)
    /\ pc' = "save"
    /\ UNCHANGED <<config, frames, hashes, detector, save_idx, output, report, error,
                   raised_at, exit_status>>

\* save_unique_frames, line 134: duplicate_set = set(duplicates)
duplicate_set == {duplicates[d] : d \in DOMAIN duplicates}

\* save_unique_frames, lines 131-132: the output directory is created.
SaveMkdir ==
    /\ pc = "save"
    /\ \E created \in BOOLEAN :
          IF created
          THEN pc' = "copy" /\ UNCHANGED <<error, raised_at>>
          ELSE Raise("OSError")
    /\ UNCHANGED <<config, frames, hashes, detector, save_idx, output, report, exit_status>>

\* save_unique_frames, lines 139-143: one iteration of the loop; every
\* frame that is not in duplicate_set is copied.
SaveCopyMutSwallow ==
    /\ pc = "copy"
    /\ save_idx <= Len(frames)
    /\ LET frame_num == frames[save_idx][1]
       IN IF frame_num \notin duplicate_set
          THEN \E copied \in BOOLEAN :
                  /\ output' = IF copied THEN output \cup {frame_num} ELSE output
                  /\ error' = IF copied THEN error ELSE "OSError"
                  /\ raised_at' = IF copied THEN raised_at ELSE pc
                  /\ save_idx' = save_idx + 1
                  /\ UNCHANGED pc
          ELSE /\ save_idx' = save_idx + 1
               /\ UNCHANGED <<pc, output, error, raised_at>>
    /\ UNCHANGED <<config, frames, hashes, detector, report, exit_status>>
SaveCopy ==
    /\ pc = "copy"
    /\ save_idx <= Len(frames)
    /\ LET frame_num == frames[save_idx][1]
       IN IF frame_num \notin duplicate_set
          THEN \E copied \in BOOLEAN :
                  IF copied
                  THEN /\ output' = output \cup {frame_num}
                       /\ save_idx' = save_idx + 1
                       /\ UNCHANGED <<pc, error, raised_at>>
                  ELSE /\ Raise("OSError")
                       /\ UNCHANGED <<output, save_idx>>
          ELSE /\ save_idx' = save_idx + 1
               /\ UNCHANGED <<pc, output, error, raised_at>>
    /\ UNCHANGED <<config, frames, hashes, detector, report, exit_status>>

\* save_unique_frames, lines 145-149: frames[0] is read to find the
\* temporary directory, which is then removed.
SaveCleanup ==
    /\ pc = "copy"
    /\ save_idx > Len(frames)
    /\ IF Len(frames) = 0
       THEN Raise("IndexError")
       ELSE pc' = "stats" /\ UNCHANGED <<error, raised_at>>
    /\ UNCHANGED <<config, frames, hashes, detector, save_idx, output, report, exit_status>>

\* deduplicate, lines 167-175.  reduction_percent is kept as the exact
\* fraction reduction_num / reduction_den.
Statistics ==
    /\ pc = "stats"
    /\ LET total_frames == Len(frames)
           unique_frames == total_frames - Len(duplicates)
       IN report' = <<[total_frames |-> total_frames,
                       duplicates |-> Len(duplicates),
                       unique_frames |-> unique_frames,
                       reduction_num |->
                           IF total_frames > 0 THEN Len(duplicates) * 100 ELSE 0,
                       reduction_den |->
                           IF total_frames > 0 THEN total_frames ELSE 1]>>
    /\ pc' = "done"
    /\ UNCHANGED <<config, frames, hashes, detector, save_idx, output, error,
                   raised_at, exit_status>>

\* main, line 228 returns: the process ends with status 0.
MainReturn ==
    /\ pc = "done"
    /\ entry = "main"
    /\ pc' = "exited"
    /\ exit_status' = ExitOk
    /\ UNCHANGED <<config, frames, hashes, detector, save_idx, output, report, error,
                   raised_at>>

\* main, lines 230-232: except Exception: logger.error, sys.exit(1).
MainExcept ==
    /\ pc = "except"
    /\ pc' = "exited"
    /\ exit_status' = ExitError
    /\ UNCHANGED <<config, frames, hashes, detector, save_idx, output, report, error,
                   raised_at>>

Next ==
    \/ Main
    \/ Construct
    \/ ExtractFrames
    \/ GenerateHashes
    \/ FindStep
    \/ FindReturn
    \/ SaveMkdir
    \/ SaveCopy
    \/ SaveCleanup
    \/ Statistics
    \/ MainReturn
    \/ MainExcept

Spec == Init /\ [][Next]_vars

(* --------------------- find_duplicates on its own ---------------------- *)
\* The state in which find_duplicates is entered, for every video of up to
\* MaxHashes frames that all hash, extracted without an interval.
InitDetector ==
    /\ entry = "api"
    /\ similarity_threshold \in Thresholds
    /\ interval = NoInterval
    /\ pc = "find"
    /\ \E n \in 0..MaxHashes : \E video \in [1..n -> GoodImages] :
          frames = ExtractFrom(video, n, NoInterval)
    /\ hashes = HashesOf(frames, Len(frames))
    /\ pos = 1
    /\ duplicates = <<>>
    /\ processed_hashes = {}
    /\ hash_to_frame = {}
    /\ debug_log = {}
    /\ save_idx = 1
    /\ output = {}
    /\ report = <<>>
    /\ error = "none"
    /\ raised_at = "none"
    /\ exit_status = ExitOk

NextDetector ==
    \/ FindStep
    \/ FindReturn

SpecDetector == InitDetector /\ [][NextDetector]_vars

TypeOK ==
    /\ pc \in {"main", "init", "extract", "hash", "find", "save", "copy", "stats",
               "done", "except", "raised", "exited"}
    /\ pos \in 1..(Len(hashes) + 1)
    /\ Len(report) <= 1

(* ------------------------- names used by the claims -------------------- *)
HashOfFrame(frame_num) == hashes[CHOOSE j \in DOMAIN hashes : hashes[j][1] = frame_num][2]
hA == str(phash("A"))
hB == str(phash("B"))
hC == str(phash("C"))
hD == str(phash("D"))
hF == str(phash("F"))
\* Entries 1..pos-1 of hashes have been through find_duplicates' loop.
Done == 1..(pos - 1)
UniqueFrames == {hashes[j][1] : j \in Done} \ duplicate_set
SinkFailed == error = "OSError"
PastExtract ==
    \/ pc \in {"hash", "find", "save", "copy", "stats", "done"}
    \/ pc \in {"except", "raised", "exited"} /\ raised_at \in {"save", "copy"}
    \/ pc = "exited" /\ error = "none"

\* The pass of the actions and find_duplicates as a function agree.
FoldAgreesWithPass ==
    pc = "save" =>
        LET r == find_duplicates(hashes, Len(hashes), similarity_threshold)
        IN r.duplicates = duplicates /\ r.processed_hashes = processed_hashes

(* -------------------------------- C1 ----------------------------------- *)
\* C1: with a threshold in 0..64, a frame that find_duplicates has processed
\* is in duplicates if and only if an earlier frame that was classified
\* unique is at Hamming distance <= threshold from it, and processed_hashes
\* (the Kept-Set) holds exactly the fingerprints of the frames classified
\* unique; earlier duplicates are never compared against.
C1_DuplicateIffNearKept ==
    InRange(similarity_threshold) =>
        /\ \A j \in Done :
              (hashes[j][1] \in duplicate_set) <=>
                  \E k \in 1..(j - 1) :
                      /\ hashes[k][1] \notin duplicate_set
                      /\ difference(hashes[j][2], hashes[k][2]) <= similarity_threshold
        /\ processed_hashes = {hashes[j][2] : j \in {k \in Done : hashes[k][1] \notin duplicate_set}}

\* The non-transitive case: B is near A and C is near B, but C is not near
\* A, so C is unique although a duplicate lies within the threshold.
C1_Witness ==
    /\ pc = "save"
    /\ similarity_threshold = 3
    /\ Len(hashes) = 3
    /\ hashes[1][2] = hA /\ hashes[2][2] = hB /\ hashes[3][2] = hC
    /\ duplicates = <<hashes[2][1]>>
    /\ processed_hashes = {hA, hC}
    /\ difference(hC, hB) <= similarity_threshold

(* -------------------------------- C2 ----------------------------------- *)
\* C2: (threshold in 0..64) a frame whose hashing failed is not in the
\* Kept-Set, not reported as a duplicate and gets no output file; the frames
\* with an output file after save_unique_frames are exactly the frames
\* classified unique.
C2_FailedFrameExcluded ==
    InRange(similarity_threshold) =>
        /\ \A j \in DOMAIN frames :
              frames[j][2] = "bad" =>
                  /\ frames[j][1] \notin output
                  /\ frames[j][1] \notin duplicate_set
                  /\ \A k \in DOMAIN hashes : hashes[k][1] # frames[j][1]
        /\ pc \in {"stats", "done"} => output = UniqueFrames

(* -------------------------------- C3 ----------------------------------- *)
\* C3: when extract_frames returns no frame (the threshold being in 0..64
\* and the output directory creatable), no error is raised, the run does
\* not reach the error exit and it reports 0 unique frames, 0 duplicates and a reduction of 0%.
C3_EmptyVideoNoError ==
    (PastExtract /\ Len(frames) = 0 /\ ~SinkFailed /\ InRange(similarity_threshold)) =>
        /\ error = "none"
        /\ pc \notin {"except", "raised"}
        /\ pc = "exited" =>
              /\ exit_status = ExitOk
              /\ Len(report) = 1
              /\ report[1].unique_frames = 0
              /\ report[1].duplicates = 0
              /\ report[1].reduction_num = 0

(* -------------------------------- C4 ----------------------------------- *)
\* C4 (as claimed): for a fixed input and thresholds t1 <= t2 in 0..64, the
\* number of frames classified unique with t2 is at most the number
\* classified unique with t1.
C4_ThresholdMonotone ==
    (pc = "save" /\ InRange(similarity_threshold)) =>
        \A t2 \in {t \in Thresholds : InRange(t)} :
            similarity_threshold <= t2 =>
                UniqueCount(hashes, t2) <= Len(hashes) - Len(duplicates)

\* C4 (amended): for a fixed input and every threshold t in 0..64, the
\* number of frames classified unique with t lies between the number with
\* threshold 64 and the number with threshold 0; for inputs of at most three
\* hashed frames the number is non-increasing in the threshold.
C4_ThresholdExtremes ==
    (pc = "save" /\ InRange(similarity_threshold)) =>
        LET unique == Len(hashes) - Len(duplicates)
        IN /\ UniqueCount(hashes, MaxThreshold) <= unique
           /\ unique <= UniqueCount(hashes, MinThreshold)
           /\ Len(hashes) <= 3 =>
                 \A t2 \in {t \in Thresholds : InRange(t)} :
                     similarity_threshold <= t2 => UniqueCount(hashes, t2) <= unique

\* A, B, C, D with threshold 2 gives two unique frames and with threshold 3
\* three: raising the threshold makes B a duplicate, and C and D, which were
\* duplicates of B only, become unique.
C4_Witness ==
    /\ pc = "save"
    /\ similarity_threshold = 2
    /\ Len(hashes) = 4
    /\ Len(hashes) - Len(duplicates) = 2
    /\ UniqueCount(hashes, 3) = 3

(* -------------------------------- C5 ----------------------------------- *)
\* C5: the kept frame a duplicate is attributed to is, among the Kept-Set
\* members within the threshold, the one inserted earliest.
C5_FirstInsertedMatch ==
    InRange(similarity_threshold) =>
        \A e \in debug_log :
            e[2] = Min({FrameOf(hash_to_frame, k) :
                          k \in {h \in processed_hashes :
                                   /\ FrameOf(hash_to_frame, h) < e[1]
                                   /\ difference(HashOfFrame(e[1]), h)
                                         <= similarity_threshold}})

(* -------------------------------- C6 ----------------------------------- *)
\* C6: with a threshold outside 0..64 nothing is extracted, hashed or
\* persisted, find_duplicates is not reached, and the run ends with a
\* non-zero status, however the run was configured.
C6_ThresholdRejected ==
    ~InRange(similarity_threshold) =>
        /\ Len(frames) = 0 /\ Len(hashes) = 0 /\ output = {}
        /\ pc \notin {"hash", "find", "save", "copy", "stats", "done"}
        /\ pc = "exited" => exit_status # ExitOk

(* -------------------------------- C7 ----------------------------------- *)
\* C7: the statistics of a completed run partition the frames: total =
\* failed to hash + duplicates + unique, the unique count is the size of the
\* Kept-Set, and the reduction is duplicates / total (0 for no frames).
C7_StatisticsPartition ==
    (Len(report) = 1 /\ InRange(similarity_threshold)) =>
        LET r == report[1]
            failed == Len(frames) - Len(hashes)
        IN /\ r.total_frames = Len(frames)
           /\ r.duplicates = Len(duplicates)
           /\ r.unique_frames = Cardinality(processed_hashes)
           /\ r.total_frames = failed + r.duplicates + r.unique_frames
           /\ r.reduction_num * Len(frames) = 100 * Len(duplicates) * r.reduction_den

(* -------------------------------- C8 ----------------------------------- *)
\* C8: after a Sink failure (mkdir or a copy raised) no statistics are
\* reported, the exception is on its way out (main's handler, which exits
\* with status 1, or the direct caller), no output file is added and none
\* is removed.
C8_SinkFailureSurfaces ==
    /\ [](SinkFailed =>
             /\ report = <<>>
             /\ pc \in {"except", "raised", "exited"}
             /\ entry = "main" => pc # "raised"
             /\ pc = "exited" => exit_status = ExitError)
    /\ [][SinkFailed => output' = output]_vars

\* A copy failed after a file was written and before a later unique frame
\* was reached, and main has exited.
C8_Witness ==
    /\ SinkFailed
    /\ raised_at = "copy"
    /\ pc = "exited"
    /\ output # {}
    /\ save_idx < Len(frames)
    /\ frames[Len(frames)][1] \in UniqueFrames

(* -------------------------------- C9 ----------------------------------- *)
\* C9: with threshold 64, once the first frame is processed the Kept-Set is
\* exactly its fingerprint, and every later frame is a duplicate attributed
\* to that first frame.
C9_MaxThresholdKeepsFirst ==
    (similarity_threshold = MaxThreshold /\ pos > 1) =>
        /\ processed_hashes = {hashes[1][2]}
        /\ duplicates = [j \in 1..(pos - 2) |-> hashes[j + 1][1]]
        /\ debug_log = {<<hashes[j][1], hashes[1][1]>> : j \in 2..(pos - 1)}

\* Fingerprints at distance 64 (A and its complement F) with threshold 64.
C9_Witness ==
    /\ similarity_threshold = MaxThreshold
    /\ pc = "save"
    /\ Len(hashes) >= 3
    /\ hashes[1][2] = hA
    /\ hashes[2][2] = hF
    /\ difference(hA, hF) = HashBits
    /\ Len(duplicates) = Len(hashes) - 1

(* -------------------------------- C10 ---------------------------------- *)
\* C10: with a threshold in 0..64, at every step the Kept-Set and its
\* frame attribution only grow, the list of duplicates is only extended,
\* two distinct kept fingerprints are more than the threshold apart, and
\* every duplicate is within the threshold of a kept fingerprint of a frame
\* with a smaller sequence index.
C10_KeptSetInvariant ==
    /\ [][InRange(similarity_threshold) =>
             /\ processed_hashes \subseteq processed_hashes'
             /\ hash_to_frame \subseteq hash_to_frame'
             /\ SubSeq(duplicates', 1, Len(duplicates)) = duplicates]_vars
    /\ [](InRange(similarity_threshold) =>
             /\ \A h1, h2 \in processed_hashes :
                   h1 # h2 => difference(h1, h2) > similarity_threshold
             /\ \A d \in duplicate_set :
                   \E k \in processed_hashes :
                       /\ FrameOf(hash_to_frame, k) < d
                       /\ difference(HashOfFrame(d), k) <= similarity_threshold)

\* A pass that kept two fingerprints and found a duplicate after them.
C10_Witness ==
    /\ pc = "save"
    /\ InRange(similarity_threshold)
    /\ Cardinality(processed_hashes) >= 2
    /\ \E d \in duplicate_set : \A p \in hash_to_frame : p[2] < d
=============================================================================
